---------------------------- MODULE Spec2Model ----------------------------
(***************************************************************************)
(* LINE webhook proxy (hono-line-dify): the POST handler of the most       *)
(* mature revision (src/unnamed/part_001), its signature check, its header *)
(* sanitizer and its dual forward to L-step (destination 1) and to the     *)
(* Dify plugin (destination 2).                                            *)
(*                                                                         *)
(* Strings on which the code works character by character (header names,   *)
(* message texts) are sequences of one-character strings.  The two         *)
(* brackets U+3010 and U+3011 are written "U+3010" and "U+3011".           *)
(***************************************************************************)
EXTENDS Naturals, Sequences, FiniteSets, TLC

(***************************************************************************)
(* Bounds of the model.                                                    *)
(***************************************************************************)
\* A raw body is a JSON text with 0..MaxPad insignificant blanks added.
MaxPad == 1
\* Number of inbound headers drawn for the header sanitizer on its own.
MaxHdrs == 2
\* Number of events of an envelope given to the event dispatcher.
MaxEvents == 2
\* Length of the texts given to the bracket filter on its own.
MaxText == 3
\* Number of requests handled at once.
MaxConc == 2

(***************************************************************************)
(* JavaScript string operations, on sequences of characters.               *)
(***************************************************************************)
UpperLetters ==
  <<"A","B","C","D","E","F","G","H","I","J","K","L","M",
    "N","O","P","Q","R","S","T","U","V","W","X","Y","Z">>
LowerLetters ==
  <<"a","b","c","d","e","f","g","h","i","j","k","l","m",
    "n","o","p","q","r","s","t","u","v","w","x","y","z">>

\* The lower-case letter of each upper-case letter, and the converse.
LowerOf ==
  [c \in { UpperLetters[k] : k \in 1..26 } |->
     LowerLetters[CHOOSE k \in 1..26 : UpperLetters[k] = c]]
UpperOf ==
  [c \in { LowerLetters[k] : k \in 1..26 } |->
     UpperLetters[CHOOSE k \in 1..26 : LowerLetters[k] = c]]

ToLowerChar(c) == IF c \in DOMAIN LowerOf THEN LowerOf[c] ELSE c

ToUpperChar(c) == IF c \in DOMAIN UpperOf THEN UpperOf[c] ELSE c

\* String.prototype.toLowerCase
toLowerCase(s) == [i \in 1..Len(s) |-> ToLowerChar(s[i])]

\* String.prototype.toUpperCase
toUpperCase(s) == [i \in 1..Len(s) |-> ToUpperChar(s[i])]

\* String.prototype.startsWith
startsWith(s, p) == Len(p) <= Len(s) /\ SubSeq(s, 1, Len(p)) = p

\* String.prototype.endsWith
endsWith(s, p) ==
  Len(p) <= Len(s) /\ SubSeq(s, Len(s) - Len(p) + 1, Len(s)) = p

\* String.prototype.includes
includes(s, p) ==
  \E i \in 1..(Len(s) + 1) :
    i + Len(p) - 1 <= Len(s) /\ SubSeq(s, i, i + Len(p) - 1) = p

(***************************************************************************)
(* Header names and values.                                                *)
(***************************************************************************)
H_ContentType  == <<"C","o","n","t","e","n","t","-","T","y","p","e">>
H_UserAgent    == <<"U","s","e","r","-","A","g","e","n","t">>
H_Accept       == <<"A","c","c","e","p","t">>
H_CacheControl == <<"C","a","c","h","e","-","C","o","n","t","r","o","l">>
H_XLineSignature ==
  <<"X","-","L","i","n","e","-","S","i","g","n","a","t","u","r","e">>
h_xlinesignature ==
  <<"x","-","l","i","n","e","-","s","i","g","n","a","t","u","r","e">>
h_xline     == <<"x","-","l","i","n","e","-">>
h_forwarded == <<"f","o","r","w","a","r","d","e","d">>
h_host      == <<"h","o","s","t">>
h_proxy     == <<"p","r","o","x","y">>

\* A header value that is a plain string.
Str(v) == <<"str", v>>

\* The empty string, the value of `headers["x-line-signature"] || ""` when
\* the header is absent or empty.
EmptyStr == Str("")

\* part_001:165-170
blacklistedHeaders ==
  { <<"h","o","s","t">>,
    <<"r","e","f","e","r","e","r">>,
    <<"o","r","i","g","i","n">>,
    <<"x","-","f","o","r","w","a","r","d","e","d","-","f","o","r">>,
    <<"x","-","f","o","r","w","a","r","d","e","d","-","h","o","s","t">>,
    <<"x","-","f","o","r","w","a","r","d","e","d","-","p","r","o","t","o">>,
    <<"x","-","r","e","a","l","-","i","p">>,
    <<"x","-","v","e","r","c","e","l","-","i","d">>,
    <<"x","-","v","e","r","c","e","l","-","c","a","c","h","e">>,
    <<"c","f","-","r","a","y">>,
    <<"c","f","-","c","o","n","n","e","c","t","i","n","g","-","i","p">> }

(***************************************************************************)
(* A JavaScript object used as a string-keyed map is a function whose      *)
(* domain is its set of keys.                                              *)
(***************************************************************************)
EmptyObj == [k \in {} |-> EmptyStr]

\* obj[key] = value
ObjSet(obj, key, value) ==
  [k \in (DOMAIN obj) \cup {key} |-> IF k = key THEN value ELSE obj[k]]

\* delete obj[key], for every key of keys
ObjDelete(obj, keys) == [k \in (DOMAIN obj) \ keys |-> obj[k]]

(***************************************************************************)
(* prepareLINEHeaders (part_001:139-178).  headers is the inbound header   *)
(* record, originalSignature the value read from it.                       *)
(***************************************************************************)
\* The four fixed defaults (part_001:140-145).
DefaultHeaders ==
  [k \in {H_ContentType, H_UserAgent, H_Accept, H_CacheControl} |->
     CASE k = H_ContentType  -> Str("application/json")
       [] k = H_UserAgent    -> Str("LineBotWebhook/1.0")
       [] k = H_Accept       -> Str("application/json")
       [] k = H_CacheControl -> Str("no-cache")]

\* Faulty variant of the copy condition: every inbound header is copied.
IsForwardedLineHeader_CopyAll(key) == TRUE

\* Faulty variant of the copy condition: the prefix is looked for anywhere
\* in the name.
IsForwardedLineHeader_PrefixAnywhere(key) ==
  LET lowerKey == toLowerCase(key)
  IN  /\ includes(lowerKey, h_xline)
      /\ lowerKey # h_xlinesignature
      /\ ~includes(lowerKey, h_forwarded)
      /\ ~includes(lowerKey, h_host)
      /\ ~includes(lowerKey, h_proxy)

\* The condition of the copy loop (part_001:154-159).
IsForwardedLineHeader(key) ==
  LET lowerKey == toLowerCase(key)
  IN  /\ startsWith(lowerKey, h_xline)
      /\ lowerKey # h_xlinesignature
      /\ ~includes(lowerKey, h_forwarded)
      /\ ~includes(lowerKey, h_host)
      /\ ~includes(lowerKey, h_proxy)

\* The keys the final loop deletes: each blacklisted name, lower-case as
\* written and upper-cased (part_001:172-175).
BlacklistDeletedKeys ==
  blacklistedHeaders \cup { toUpperCase(h) : h \in blacklistedHeaders }

prepareLINEHeaders(headers, originalSignature, includeSignature) ==
  LET seeded == IF includeSignature
                  THEN ObjSet(DefaultHeaders, H_XLineSignature, originalSignature)
                  ELSE DefaultHeaders
      copied == { k \in DOMAIN headers : IsForwardedLineHeader(k) }
      merged == [k \in (DOMAIN seeded) \cup copied |->
                   IF k \in copied THEN headers[k] ELSE seeded[k]]
  IN  ObjDelete(merged, BlacklistDeletedKeys)

(***************************************************************************)
(* The environment (process.env).  An unset variable reads as "".          *)
(***************************************************************************)
EnvKeys ==
  { "LINE_CHANNEL_ACCESS_TOKEN", "LINE_CHANNEL_SECRET", "LSTEP_WEBHOOK_URL",
    "DIFY_LINE_BOT_ENDPOINT", "DIFY_API_KEY" }

\* The channel secrets drawn.
Secrets == { "secretA", "secretB" }

\* The value a variable has when it is set.
EnvValue(key, secret) ==
  CASE key = "LINE_CHANNEL_SECRET"    -> secret
    [] key = "LINE_CHANNEL_ACCESS_TOKEN" -> "token"
    [] key = "LSTEP_WEBHOOK_URL"      -> "https://lstep.example/hook"
    [] key = "DIFY_LINE_BOT_ENDPOINT" -> "https://dify.example/line"
    [] key = "DIFY_API_KEY"           -> "app-key"

\* Every variable set, but for the one named by missing (a set of keys).
MakeEnv(secret, missing) ==
  [key \in EnvKeys |-> IF key \in missing THEN "" ELSE EnvValue(key, secret)]

\* The environments drawn: complete under either secret, or with exactly
\* one variable unset.
Envs ==
  { MakeEnv(s, {}) : s \in Secrets } \cup
  { MakeEnv("secretA", {k}) : k \in EnvKeys }

(***************************************************************************)
(* Bodies.  A raw body is a JSON text: the value it denotes (json) and the *)
(* number of insignificant blanks in it (pad); a text that is not JSON has *)
(* json.t = "malformed".                                                   *)
(***************************************************************************)
T_hello == <<"h","e","l","l","o">>
T_internal ==
  <<"U+3010","i","n","t","e","r","n","a","l","U+3011">>
T_paddedBracket == <<" ","U+3010","a","U+3011"," ">>

TextEvent(text) ==
  [type |-> "message", replyToken |-> <<"token", "text">>,
   message |-> [type |-> "text", text |-> text]]
MediaEvent(kind, id) ==
  [type |-> "message", replyToken |-> <<"token", id>>,
   message |-> [type |-> kind, id |-> id]]
FollowEvent == [type |-> "follow"]

Envelope(events) ==
  [t |-> "object", destination |-> "Uproxy", events |-> events]

\* The JSON documents drawn.
JsonDocs ==
  { [t |-> "malformed"],
    [t |-> "null"],
    [t |-> "object", destination |-> "Uproxy"],
    Envelope(<< >>),
    Envelope(<<TextEvent(T_hello)>>),
    Envelope(<<TextEvent(T_internal)>>),
    Envelope(<<TextEvent(T_paddedBracket)>>),
    Envelope(<<MediaEvent("image", "m1")>>),
    Envelope(<<FollowEvent>>) }

Bodies == [json : JsonDocs, pad : 0..MaxPad]

\* JSON.parse throws a SyntaxError on a text that is not JSON.
JSONParseThrows(text) == text.json.t = "malformed"

\* JSON.parse: the value, without the blanks of the text.
JSONParse(text) == text.json

\* JSON.stringify: the canonical text of a value, without blanks.
JSONStringify(value) == [json |-> value, pad |-> 0]

\* `webhookBody.events.length` (part_001:129) throws a TypeError when
\* webhookBody is null or has no events property.
EventsLengthThrows(webhookBody) ==
  webhookBody.t = "null" \/ "events" \notin DOMAIN webhookBody

(***************************************************************************)
(* State.                                                                  *)
(***************************************************************************)
VARIABLES
  env,                \* process.env
  pc,                 \* idle, reading, forwarding, responded
  req,                \* the inbound request: [body, hdrs]
  rawBody,            \* handler local (part_001:122)
  webhookBody,        \* handler local (part_001:123)
  originalSignature,  \* handler local (part_001:124)
  headers,            \* handler local (part_001:127)
  fwd,                \* the two forwards: 1 = L-step, 2 = Dify
  calls,              \* the outbound POSTs issued for this request, in order
  response,           \* the response to the inbound request
  sanIn,              \* header sanitizer on its own: the arguments
  sanOut,             \* header sanitizer on its own: the result
  sigIn,              \* signature functions on their own: the arguments
  sigOut,             \* signature functions on their own: the results
  mEvents,            \* event dispatcher: the events of the verified envelope
  mIdx,               \* event dispatcher: the event being handled
  mStep,              \* media pipeline: the step the event is at
  mBlob,              \* media pipeline: the content fetched
  mStaged,            \* media pipeline: the key of the staged object
  mAnswer,            \* media pipeline: the answer of the AI processor
  mOps,               \* the outbound operations of the dispatcher, in order
  brIn,               \* bracket filter on its own: the text
  brOut,              \* bracket filter on its own: the result
  hs                  \* concurrent requests: the handler invocation of each

handlerVars ==
  << pc, req, rawBody, webhookBody, originalSignature, headers, fwd,
     calls, response >>

\* The variables of the runs of single functions.
sanVars == << sanIn, sanOut >>
sigVars == << sigIn, sigOut >>
mediaVars == << mEvents, mIdx, mStep, mBlob, mStaged, mAnswer, mOps >>
brVars == << brIn, brOut >>
others  == << sanVars, sigVars, mediaVars, brVars, hs >>

vars == << env, handlerVars, others >>

(***************************************************************************)
(* Signature (part_001:292-300).  HMAC-SHA256 is an ideal keyed hash: the  *)
(* digest determines the key and the message, and base64 is one-to-one.    *)
(***************************************************************************)
HmacSha256Base64(secret, body) == <<"mac", secret, body>>

\* Faulty variant: the digest is taken over the re-serialized parsed body.
createSignature_Reserialized(body) ==
  HmacSha256Base64(env["LINE_CHANNEL_SECRET"],
                   IF JSONParseThrows(body) THEN body
                   ELSE JSONStringify(JSONParse(body)))

createSignature(body) ==
  HmacSha256Base64(env["LINE_CHANNEL_SECRET"], body)

\* Faulty variant: a request without signature is let through.
validateSignature_EmptyAccepted(signature, body) ==
  signature = EmptyStr \/ signature = createSignature(body)

validateSignature(signature, body) == signature = createSignature(body)

(***************************************************************************)
(* validateEnvVars (part_001:8-22).                                        *)
(***************************************************************************)
required ==
  { "LINE_CHANNEL_ACCESS_TOKEN", "LINE_CHANNEL_SECRET", "LSTEP_WEBHOOK_URL",
    "DIFY_LINE_BOT_ENDPOINT" }

validateEnvVars == { key \in required : env[key] = "" } = {}

(***************************************************************************)
(* Inbound requests.  hdrs is the sequence of header fields as sent, names *)
(* in any letter case; c.req.header() hands the handler the record with    *)
(* the names in lower case, one entry per name.                            *)
(***************************************************************************)
W_XLineRequestId ==
  <<"X","-","L","i","n","e","-","R","e","q","u","e","s","t","-","I","d">>
W_XLineHost      == <<"X","-","L","i","n","e","-","H","o","s","t">>
W_xlineproxyid   ==
  <<"x","-","l","i","n","e","-","p","r","o","x","y","-","i","d">>
W_xlineforwarded ==
  <<"x","-","l","i","n","e","-","f","o","r","w","a","r","d","e","d">>
W_Host           == <<"H","o","s","t">>
W_HOST           == <<"H","O","S","T">>
W_XForwardedFor  ==
  <<"X","-","F","o","r","w","a","r","d","e","d","-","F","o","r">>
W_CfRay          == <<"C","f","-","R","a","y">>
W_Origin         == <<"O","r","i","g","i","n">>
W_useragent      == <<"u","s","e","r","-","a","g","e","n","t">>
W_XLINESIGNATURE ==
  <<"X","-","L","I","N","E","-","S","I","G","N","A","T","U","R","E">>

\* The spellings of the signature header name drawn.
SigNames == { h_xlinesignature, H_XLineSignature, W_XLINESIGNATURE }

\* A header mapping with the given names, each with a value of its own.
HdrsOf(names) == [n \in names |-> <<"str", "value", "of", n>>]

\* The other headers of a request.
WireExtras ==
  { EmptyObj,
    HdrsOf({W_Host, W_XForwardedFor, W_useragent}),
    HdrsOf({W_XLineRequestId, W_XLineHost, W_xlineproxyid, W_CfRay}) }

\* The signature values a request for body b may carry: none, a forged
\* string, the digest of b under either secret, and the digests under one
\* secret of b with other blanks and of another body.
SigChoices(b) ==
  { EmptyStr, Str("forged") } \cup
  { HmacSha256Base64(s, b) : s \in Secrets } \cup
  { HmacSha256Base64("secretA", b2) :
      b2 \in { [b EXCEPT !.pad = p] : p \in 0..MaxPad } \cup
             { [json |-> Envelope(<< >>), pad |-> 0] } }

\* The header mappings a request for body b may carry.
WireHeaders(b) ==
  WireExtras \cup
  { ObjSet(x, n, v) : x \in WireExtras, n \in SigNames, v \in SigChoices(b) }

\* A header field as sent.  The headers of a request are the sequence of
\* its fields, in the order sent.
Field(name, value) == [name |-> name, value |-> value]

\* The fields of a header mapping, one per name.
RECURSIVE FieldsOf(_)
FieldsOf(obj) ==
  IF DOMAIN obj = {} THEN << >>
  ELSE LET n == CHOOSE n \in DOMAIN obj : TRUE
       IN  <<Field(n, obj[n])>> \o FieldsOf(ObjDelete(obj, {n}))

W_xlinerequestid == toLowerCase(W_XLineRequestId)

\* Headers of a request for body b in which a name comes more than once, in
\* different letter case: the host, the signature, and an x-line- header
\* next to a valid signature.
DuplicateFields(b) ==
  { << Field(W_Host, HdrsOf({W_Host})[W_Host]),
       Field(W_HOST, HdrsOf({W_HOST})[W_HOST]) >>,
    << Field(H_XLineSignature, HmacSha256Base64("secretA", b)),
       Field(h_xlinesignature, HmacSha256Base64("secretA", b)) >>,
    << Field(W_XLineRequestId, HdrsOf({W_XLineRequestId})[W_XLineRequestId]),
       Field(h_xlinesignature, HmacSha256Base64("secretA", b)),
       Field(W_xlinerequestid, HdrsOf({W_xlinerequestid})[W_xlinerequestid]) >> }

Requests ==
  UNION { { [body |-> b, hdrs |-> h] :
              h \in { FieldsOf(m) : m \in WireHeaders(b) } \cup
                    DuplicateFields(b) } :
          b \in Bodies }

\* The values of the fields of hdrs whose lower-cased name is key, in the
\* order sent.
RECURSIVE ValuesNamed(_, _)
ValuesNamed(hdrs, key) ==
  IF hdrs = << >> THEN << >>
  ELSE (IF toLowerCase(Head(hdrs).name) = key
          THEN <<Head(hdrs).value>> ELSE << >>)
       \o ValuesNamed(Tail(hdrs), key)

\* The values of the fields of one name, joined by ", " as the Headers
\* object joins them; the value itself when there is one.
JoinValues(values) ==
  IF Len(values) = 1 THEN values[1] ELSE <<"joined", values>>

\* c.req.header(): every header, its name in lower case; the fields whose
\* names are the same in lower case are one header, their values joined.
reqHeader(hdrs) ==
  [k \in { toLowerCase(hdrs[i].name) : i \in DOMAIN hdrs } |->
     JoinValues(ValuesNamed(hdrs, k))]

\* `x || ""` on a header value that may be undefined.
OrEmpty(obj, key) == IF key \in DOMAIN obj THEN obj[key] ELSE EmptyStr

(***************************************************************************)
(* Values of the handler's locals before they are assigned.                *)
(***************************************************************************)
NoText     == [json |-> [t |-> "unread"], pad |-> 0]
NoValue    == [t |-> "unparsed"]
NoRequest  == [body |-> NoText, hdrs |-> << >>]
NoResponse == [status |-> 0, message |-> ""]

IdleFwd == [st |-> "idle", timer |-> FALSE, status |-> 0, outcome |-> "none"]

Dests == {1, 2}

\* The statuses a destination answers with.
DownstreamStatuses == { 200, 500 }

\* Response.ok
ResOk(status) == status >= 200 /\ status <= 299

(***************************************************************************)
(* The fetch call of each forward (part_001:186-202, 230-246).             *)
(***************************************************************************)
\* Faulty variant: the body sent is the parsed envelope serialized again.
LStepCall_Reserialized(raw, sig, hdr) ==
  [dest |-> 1, url |-> env["LSTEP_WEBHOOK_URL"], method |-> "POST",
   headers |-> prepareLINEHeaders(hdr, sig, TRUE),
   body |-> JSONStringify(JSONParse(raw))]

LStepCall(raw, sig, hdr) ==
  [dest |-> 1, url |-> env["LSTEP_WEBHOOK_URL"], method |-> "POST",
   headers |-> prepareLINEHeaders(hdr, sig, TRUE),
   body |-> raw]

\* Faulty variant: the signature is sent to destination 2 as well, as the earlier
\* revisions did.
DifyCall_WithSignature(raw, sig, hdr) ==
  [dest |-> 2, url |-> env["DIFY_LINE_BOT_ENDPOINT"], method |-> "POST",
   headers |-> prepareLINEHeaders(hdr, sig, TRUE),
   body |-> raw]

DifyCall(raw, sig, hdr) ==
  [dest |-> 2, url |-> env["DIFY_LINE_BOT_ENDPOINT"], method |-> "POST",
   headers |-> prepareLINEHeaders(hdr, sig, FALSE),
   body |-> raw]

(***************************************************************************)
(* Values of the variables of the runs of single functions while unused.   *)
(***************************************************************************)
NoSanIn  == [headers |-> EmptyObj, originalSignature |-> EmptyStr,
             includeSignature |-> FALSE]
NoSanOut == [done |-> FALSE, forwardHeaders |-> EmptyObj]
NoSigIn  == [b1 |-> NoText, b2 |-> NoText]
NoSigOut == [done |-> FALSE, signature |-> EmptyStr, same |-> FALSE,
             cross |-> FALSE]

\* No content, no staged object, no answer.
NoBlob   == [contentType |-> ""]
NoKey    == << >>
NoAnswer == ""

\* The handler before a request.
HandlerIdle ==
  /\ pc = "idle"
  /\ req = NoRequest
  /\ rawBody = NoText
  /\ webhookBody = NoValue
  /\ originalSignature = EmptyStr
  /\ headers = EmptyObj
  /\ fwd = [d \in Dests |-> IdleFwd]
  /\ calls = << >>
  /\ response = NoResponse

SanIdle == sanIn = NoSanIn /\ sanOut = NoSanOut

SigIdle == sigIn = NoSigIn /\ sigOut = NoSigOut

MediaIdle ==
  /\ mEvents = << >>
  /\ mIdx = 1
  /\ mStep = "done"
  /\ mBlob = NoBlob
  /\ mStaged = NoKey
  /\ mAnswer = NoAnswer
  /\ mOps = << >>

\* The bracket filter before it is applied.
NoBrOut == [done |-> FALSE, result |-> FALSE]

BracketIdle == brIn = << >> /\ brOut = NoBrOut

\* The invocations of the handler that may be in progress at once, and an
\* invocation that has not begun: the locals of app.post("/") unassigned.
Slots == 1..MaxConc

IdleHandler ==
  [pc |-> "idle", req |-> NoRequest, rawBody |-> NoText,
   webhookBody |-> NoValue, originalSignature |-> EmptyStr,
   headers |-> EmptyObj, fwd |-> [d \in Dests |-> IdleFwd],
   calls |-> << >>, response |-> NoResponse]

ConcIdle == hs = [s \in Slots |-> IdleHandler]

(***************************************************************************)
(* Initial state: the process is up with some environment, no request.     *)
(***************************************************************************)
Init ==
  /\ env \in Envs
  /\ HandlerIdle
  /\ SanIdle
  /\ SigIdle
  /\ MediaIdle
  /\ BracketIdle
  /\ ConcIdle

(***************************************************************************)
(* app.post("/") up to its first await (part_001:116-122).                 *)
(***************************************************************************)
Receive ==
  /\ pc = "idle"
  /\ \E r \in Requests : req' = r
  /\ IF ~validateEnvVars
       THEN /\ response' = [status |-> 500,
                            message |-> "Server configuration error"]
            /\ pc' = "responded"
       ELSE /\ response' = response
            /\ pc' = "reading"
  /\ UNCHANGED << env, rawBody, webhookBody, originalSignature, headers,
                  fwd, calls >>
  /\ UNCHANGED others

(***************************************************************************)
(* app.post("/") from the body to the two fetch calls (part_001:122-275).  *)
(* An exception leaves the handler and Hono answers 500.  Both forwards    *)
(* run to their fetch call before the handler awaits the join.             *)
(***************************************************************************)
InternalError == [status |-> 500, message |-> "Internal Server Error"]

HandleBody ==
  /\ pc = "reading"
  /\ rawBody' = req.body
  /\ IF JSONParseThrows(req.body)
       THEN /\ response' = InternalError
            /\ pc' = "responded"
            /\ UNCHANGED << webhookBody, originalSignature, headers, fwd,
                            calls >>
       ELSE
         /\ webhookBody' = JSONParse(req.body)
         /\ originalSignature' = OrEmpty(reqHeader(req.hdrs), h_xlinesignature)
         /\ headers' = reqHeader(req.hdrs)
         /\ IF EventsLengthThrows(webhookBody')
              THEN /\ response' = InternalError
                   /\ pc' = "responded"
                   /\ UNCHANGED << fwd, calls >>
              ELSE IF ~validateSignature(originalSignature', rawBody')
                THEN /\ response' = [status |-> 401,
                                     message |-> "Invalid signature"]
                     /\ pc' = "responded"
                     /\ UNCHANGED << fwd, calls >>
                ELSE /\ calls' =
                          << LStepCall(rawBody', originalSignature', headers'),
                             DifyCall(rawBody', originalSignature', headers') >>
                     /\ fwd' = [d \in Dests |->
                                  [IdleFwd EXCEPT !.st = "fetching",
                                                  !.timer = TRUE]]
                     /\ pc' = "forwarding"
                     /\ response' = response
  /\ UNCHANGED << env, req >>
  /\ UNCHANGED others

(***************************************************************************)
(* forwardToLStep / forwardToDify after the fetch call                     *)
(* (part_001:197-221, 241-265).                                            *)
(***************************************************************************)
\* The destination answers: fetch resolves, finally clears the timer, and
\* the forward awaits the text of the response.
FetchResolves(d) ==
  /\ pc = "forwarding"
  /\ fwd[d].st = "fetching"
  /\ \E s \in DownstreamStatuses :
       fwd' = [fwd EXCEPT ![d] = [st |-> "reading", timer |-> FALSE,
                                  status |-> s, outcome |-> "none"]]
  /\ UNCHANGED << env, pc, req, rawBody, webhookBody, originalSignature,
                  headers, calls, response >>
  /\ UNCHANGED others

\* Faulty variant: after a network error the POST is issued once more.
FetchRejects_Retry(d) ==
  /\ pc = "forwarding"
  /\ fwd[d].st = "fetching"
  /\ Len(calls) < 4
  /\ calls' = Append(calls, calls[d])
  /\ fwd' = [fwd EXCEPT ![d] = [st |-> "fetching", timer |-> TRUE,
                                status |-> 0, outcome |-> "none"]]
  /\ UNCHANGED << env, pc, req, rawBody, webhookBody, originalSignature,
                  headers, response >>
  /\ UNCHANGED others

\* A network error: fetch rejects, finally clears the timer, catch logs.
FetchRejects(d) ==
  /\ pc = "forwarding"
  /\ fwd[d].st = "fetching"
  /\ fwd' = [fwd EXCEPT ![d] = [st |-> "settled", timer |-> FALSE,
                                status |-> 0, outcome |-> "neterror"]]
  /\ UNCHANGED << env, pc, req, rawBody, webhookBody, originalSignature,
                  headers, calls, response >>
  /\ UNCHANGED others

\* Faulty variant: the two forwards share one AbortController, so the timer
\* of one aborts the fetch of the other as well.
TimeoutFires_SharedController(d) ==
  /\ pc = "forwarding"
  /\ fwd[d].st = "fetching"
  /\ fwd[d].timer
  /\ fwd' = [o \in Dests |->
               IF fwd[o].st = "fetching"
                 THEN [st |-> "settled", timer |-> FALSE, status |-> 0,
                       outcome |-> "timeout"]
                 ELSE fwd[o]]
  /\ UNCHANGED << env, pc, req, rawBody, webhookBody, originalSignature,
                  headers, calls, response >>
  /\ UNCHANGED others

\* The 10 s timer fires: controller.abort(), fetch rejects with AbortError.
TimeoutFires(d) ==
  /\ pc = "forwarding"
  /\ fwd[d].st = "fetching"
  /\ fwd[d].timer
  /\ fwd' = [fwd EXCEPT ![d] = [st |-> "settled", timer |-> FALSE,
                                status |-> 0, outcome |-> "timeout"]]
  /\ UNCHANGED << env, pc, req, rawBody, webhookBody, originalSignature,
                  headers, calls, response >>
  /\ UNCHANGED others

\* res.text() resolves: the outcome is logged by res.ok.
TextResolves(d) ==
  /\ pc = "forwarding"
  /\ fwd[d].st = "reading"
  /\ fwd' = [fwd EXCEPT ![d].st = "settled",
                        ![d].outcome = IF ResOk(fwd[d].status)
                                         THEN "ok" ELSE "non2xx"]
  /\ UNCHANGED << env, pc, req, rawBody, webhookBody, originalSignature,
                  headers, calls, response >>
  /\ UNCHANGED others

\* res.text() rejects: the same catch logs it.
TextRejects(d) ==
  /\ pc = "forwarding"
  /\ fwd[d].st = "reading"
  /\ fwd' = [fwd EXCEPT ![d].st = "settled", ![d].outcome = "readerror"]
  /\ UNCHANGED << env, pc, req, rawBody, webhookBody, originalSignature,
                  headers, calls, response >>
  /\ UNCHANGED others

(***************************************************************************)
(* Promise.allSettled has both forwards settled: the handler answers       *)
(* (part_001:271-281).                                                     *)
(***************************************************************************)
\* Faulty variant: the forwards are started and not awaited, as in the
\* earlier revisions (index.ts:166-170, 360-365).
Respond_FireAndForget ==
  /\ pc = "forwarding"
  /\ response' = [status |-> 200, message |-> ""]
  /\ pc' = "responded"
  /\ UNCHANGED << env, req, rawBody, webhookBody, originalSignature,
                  headers, fwd, calls >>
  /\ UNCHANGED others

\* Faulty variant: a failed forward is reported to the caller.
Respond_PropagateFailure ==
  /\ pc = "forwarding"
  /\ \A d \in Dests : fwd[d].st = "settled"
  /\ response' = IF \A d \in Dests : fwd[d].outcome = "ok"
                   THEN [status |-> 200, message |-> ""]
                   ELSE [status |-> 502, message |-> "Bad Gateway"]
  /\ pc' = "responded"
  /\ UNCHANGED << env, req, rawBody, webhookBody, originalSignature,
                  headers, fwd, calls >>
  /\ UNCHANGED others

Respond ==
  /\ pc = "forwarding"
  /\ \A d \in Dests : fwd[d].st = "settled"
  /\ response' = [status |-> 200, message |-> ""]
  /\ pc' = "responded"
  /\ UNCHANGED << env, req, rawBody, webhookBody, originalSignature,
                  headers, fwd, calls >>
  /\ UNCHANGED others

\* The request is over; the next one finds nothing of it.
NextRequest ==
  /\ pc = "responded"
  /\ pc' = "idle"
  /\ req' = NoRequest
  /\ rawBody' = NoText
  /\ webhookBody' = NoValue
  /\ originalSignature' = EmptyStr
  /\ headers' = EmptyObj
  /\ fwd' = [d \in Dests |-> IdleFwd]
  /\ calls' = << >>
  /\ response' = NoResponse
  /\ UNCHANGED env
  /\ UNCHANGED others

Next ==
  \/ Receive
  \/ HandleBody
  \/ \E d \in Dests : FetchResolves(d)
  \/ \E d \in Dests : FetchRejects(d)
  \/ \E d \in Dests : TimeoutFires(d)
  \/ \E d \in Dests : TextResolves(d)
  \/ \E d \in Dests : TextRejects(d)
  \/ Respond
  \/ NextRequest

Spec == Init /\ [][Next]_vars

(***************************************************************************)
(* The header sanitizer on its own: prepareLINEHeaders applied to any      *)
(* header record, names in any letter case.                                *)
(***************************************************************************)
W_hOsT      == <<"h","O","s","T">>
W_referer   == <<"r","e","f","e","r","e","r">>
W_XRealIp   == <<"X","-","R","e","a","l","-","I","p">>
W_XVERCELID == <<"X","-","V","E","R","C","E","L","-","I","D">>
W_MyXLineId == <<"M","y","-","X","-","L","i","n","e","-","I","d">>

SanNames ==
  { h_host, W_Host, W_HOST, W_hOsT, W_referer, W_Origin, W_XForwardedFor,
    W_XRealIp, W_XVERCELID, W_CfRay, W_useragent, H_ContentType,
    W_XLineRequestId, W_XLineHost, W_xlineproxyid, W_xlineforwarded,
    W_MyXLineId, h_xlinesignature, H_XLineSignature, W_XLINESIGNATURE }

\* The subsets of S with at most k elements.
RECURSIVE AtMost(_, _)
AtMost(S, k) ==
  IF k = 0 THEN { {} }
  ELSE LET prev == AtMost(S, k - 1)
       IN  prev \cup { N \cup {x} : N \in prev, x \in S }

SanInputs ==
  [ headers : { HdrsOf(N) : N \in AtMost(SanNames, MaxHdrs) },
    originalSignature : { EmptyStr, Str("c2lnbmF0dXJl") },
    includeSignature : BOOLEAN ]

InitHeaders ==
  /\ env \in { MakeEnv(s, {}) : s \in Secrets }
  /\ HandlerIdle
  /\ sanIn \in SanInputs
  /\ sanOut = NoSanOut
  /\ SigIdle
  /\ MediaIdle
  /\ BracketIdle
  /\ ConcIdle

Sanitize ==
  /\ ~sanOut.done
  /\ sanOut' = [done |-> TRUE,
                forwardHeaders |->
                  prepareLINEHeaders(sanIn.headers, sanIn.originalSignature,
                                     sanIn.includeSignature)]
  /\ UNCHANGED << env, handlerVars, sanIn, sigVars, mediaVars, brVars, hs >>

NextHeaders == Sanitize

SpecHeaders == InitHeaders /\ [][NextHeaders]_vars

(***************************************************************************)
(* The signature functions on their own: a signature is made for body b1   *)
(* and verified against b1 and against b2, under the secret of env.        *)
(***************************************************************************)
InitSig ==
  /\ env \in { MakeEnv(s, {}) : s \in Secrets }
  /\ HandlerIdle
  /\ SanIdle
  /\ sigIn \in [b1 : Bodies, b2 : Bodies]
  /\ sigOut = NoSigOut
  /\ MediaIdle
  /\ BracketIdle
  /\ ConcIdle

SignAndVerify ==
  /\ ~sigOut.done
  /\ sigOut' = [done |-> TRUE,
                signature |-> createSignature(sigIn.b1),
                same  |-> validateSignature(createSignature(sigIn.b1), sigIn.b1),
                cross |-> validateSignature(createSignature(sigIn.b1), sigIn.b2)]
  /\ UNCHANGED << env, handlerVars, sanVars, sigIn, mediaVars, brVars, hs >>

NextSig == SignAndVerify

SpecSig == InitSig /\ [][NextSig]_vars

(***************************************************************************)
(* The bracket filter of the event dispatcher (README, Dify forwarding of  *)
(* text messages): a text enclosed in U+3010 and U+3011 is meant for       *)
(* destination 1 only.  The predicate looks at the first and the last      *)
(* character of the text it is given; the dispatcher gives it the trimmed  *)
(* text of the message.                                                    *)
(***************************************************************************)
WhiteSpace == { " ", "\t", "\n", "\r" }

RECURSIVE trimStart(_)
trimStart(s) ==
  IF s # << >> /\ Head(s) \in WhiteSpace THEN trimStart(Tail(s)) ELSE s

RECURSIVE trimEnd(_)
trimEnd(s) ==
  IF s # << >> /\ s[Len(s)] \in WhiteSpace
    THEN trimEnd(SubSeq(s, 1, Len(s) - 1)) ELSE s

\* String.prototype.trim
trim(s) == trimEnd(trimStart(s))

\* Faulty variant: the brackets are looked for anywhere in the text.
isExclusiveToFirstDownstream_Substring(text) ==
  /\ Len(text) >= 2
  /\ includes(text, <<"U+3010">>)
  /\ includes(text, <<"U+3011">>)

isExclusiveToFirstDownstream(text) ==
  /\ Len(text) >= 2
  /\ startsWith(text, <<"U+3010">>)
  /\ endsWith(text, <<"U+3011">>)

(***************************************************************************)
(* The bracket filter on its own: applied to any text over an opening      *)
(* bracket, a closing bracket, a letter and a blank.                       *)
(***************************************************************************)
BracketAlphabet == { "U+3010", "U+3011", "a", " " }

BracketTexts == UNION { [1..n -> BracketAlphabet] : n \in 0..MaxText }

InitBracket ==
  /\ env \in { MakeEnv(s, {}) : s \in Secrets }
  /\ HandlerIdle
  /\ SanIdle
  /\ SigIdle
  /\ MediaIdle
  /\ brIn \in BracketTexts
  /\ brOut = NoBrOut
  /\ ConcIdle

ApplyBracketFilter ==
  /\ ~brOut.done
  /\ brOut' = [done |-> TRUE, result |-> isExclusiveToFirstDownstream(brIn)]
  /\ UNCHANGED << env, handlerVars, sanVars, sigVars, mediaVars, brIn, hs >>

NextBracket == ApplyBracketFilter

SpecBracket == InitBracket /\ [][NextBracket]_vars

(***************************************************************************)
(* The event dispatcher and the media pipeline (README, message handling   *)
(* flow): each event of a verified envelope in turn; a media message is    *)
(* fetched, staged in temporary object storage, processed by the AI        *)
(* processor, its staged object deleted, and a reply sent.  mOps records   *)
(* every outbound operation with the event it is for and its outcome.      *)
(***************************************************************************)
MediaKinds == { "image", "audio", "video", "file" }

\* The events drawn for the dispatcher.
DispatchedEvents ==
  { TextEvent(T_hello), TextEvent(T_paddedBracket), MediaEvent("image", "m1"),
    MediaEvent("file", "m2"), MediaEvent("sticker", "m3"), FollowEvent }

EventLists == UNION { [1..n -> DispatchedEvents] : n \in 0..MaxEvents }

\* The content type the upstream source returns for a message.
ContentTypeOf(kind) ==
  IF kind = "image" THEN "image/jpeg" ELSE "application/octet-stream"

\* The file extension of a content type, and the file-type tag of it.
ExtensionOf(contentType) == <<"extension of", contentType>>
FileTypeOf(extension) == <<"file type of", extension>>

\* The key of the staged object: the message identifier and the extension.
StageKey(id, extension) == <<id, extension>>

FallbackText == "file analysis failed"

\* An outbound operation of the dispatcher: its kind, the event it is for,
\* what it was given, whether it succeeded, and the answer it brought.
Op(op, arg, ok) ==
  [op |-> op, ev |-> mIdx, arg |-> arg, ok |-> ok, out |-> NoAnswer]

InitMedia ==
  /\ env \in { MakeEnv(s, {}) : s \in Secrets }
  /\ HandlerIdle
  /\ SanIdle
  /\ SigIdle
  /\ mEvents \in EventLists
  /\ mIdx = 1
  /\ mStep = "dispatch"
  /\ mBlob = NoBlob
  /\ mStaged = NoKey
  /\ mAnswer = NoAnswer
  /\ mOps = << >>
  /\ BracketIdle
  /\ ConcIdle

\* The event is over, handled or given up: on to the next one.
NextEvent ==
  /\ mIdx' = mIdx + 1
  /\ mStep' = "dispatch"
  /\ mBlob' = NoBlob
  /\ mStaged' = NoKey
  /\ mAnswer' = NoAnswer

\* Classification of the event.  Handling an event may throw before any
\* operation is made: the error is caught and logged, and the dispatcher
\* goes on.
Dispatch ==
  /\ mStep = "dispatch"
  /\ mIdx <= Len(mEvents)
  /\ \E threw \in BOOLEAN :
       LET event == mEvents[mIdx]
       IN  IF threw
             THEN /\ NextEvent
                  /\ mOps' = Append(mOps, Op("caught", "error", FALSE))
           ELSE IF event.type # "message"
             THEN NextEvent /\ UNCHANGED mOps
           ELSE IF event.message.type = "text"
             THEN /\ NextEvent
                  /\ IF isExclusiveToFirstDownstream(trim(event.message.text))
                       THEN UNCHANGED mOps
                       ELSE \E ok \in BOOLEAN :
                              mOps' = Append(mOps,
                                             Op("forwardDify", "rawBody", ok))
           ELSE IF event.message.type \in MediaKinds
             THEN /\ mStep' = "fetch"
                  /\ UNCHANGED << mIdx, mBlob, mStaged, mAnswer, mOps >>
           ELSE NextEvent /\ UNCHANGED mOps
  /\ UNCHANGED << env, handlerVars, sanVars, sigVars, brVars, hs, mEvents >>

\* Every event has been handled: the handler answers.
DispatchDone ==
  /\ mStep = "dispatch"
  /\ mIdx > Len(mEvents)
  /\ mStep' = "done"
  /\ response' = [status |-> 200, message |-> ""]
  /\ UNCHANGED << env, pc, req, rawBody, webhookBody, originalSignature,
                  headers, fwd, calls >>
  /\ UNCHANGED << sanVars, sigVars, brVars, hs, mEvents, mIdx, mBlob, mStaged,
                  mAnswer, mOps >>

\* Faulty variant: a failed fetch ends the handling of the envelope with an
\* error response.
Fetch_AbortsEnvelope ==
  /\ mStep = "fetch"
  /\ LET message == mEvents[mIdx].message
     IN  \E ok \in BOOLEAN :
           /\ mOps' = Append(mOps, Op("fetchContent", message.id, ok))
           /\ IF ok
                THEN /\ mBlob' = [contentType |-> ContentTypeOf(message.type)]
                     /\ mStep' = "stage"
                     /\ response' = response
                ELSE /\ mBlob' = mBlob
                     /\ mStep' = "done"
                     /\ response' = InternalError
           /\ UNCHANGED << mIdx, mStaged, mAnswer >>
  /\ UNCHANGED << env, pc, req, rawBody, webhookBody, originalSignature,
                  headers, fwd, calls >>
  /\ UNCHANGED << sanVars, sigVars, brVars, hs, mEvents >>

\* Step 1: the content of the message is requested from the upstream source.
Fetch ==
  /\ mStep = "fetch"
  /\ LET message == mEvents[mIdx].message
     IN  \E ok \in BOOLEAN :
           /\ mOps' = Append(mOps, Op("fetchContent", message.id, ok))
           /\ IF ok
                THEN /\ mBlob' = [contentType |-> ContentTypeOf(message.type)]
                     /\ mStep' = "stage"
                     /\ UNCHANGED << mIdx, mStaged, mAnswer >>
                ELSE NextEvent
  /\ UNCHANGED << env, handlerVars, sanVars, sigVars, brVars, hs, mEvents >>

\* Faulty variant: a failed upload does not stop the pipeline.
Stage_ContinueOnFailure ==
  /\ mStep = "stage"
  /\ LET key == StageKey(mEvents[mIdx].message.id,
                         ExtensionOf(mBlob.contentType))
     IN  \E ok \in BOOLEAN :
           /\ mOps' = Append(mOps, Op("put", key, ok))
           /\ mStaged' = IF ok THEN key ELSE NoKey
           /\ mStep' = "process"
           /\ UNCHANGED << mIdx, mBlob, mAnswer >>
  /\ UNCHANGED << env, handlerVars, sanVars, sigVars, brVars, hs, mEvents >>

\* Steps 2 and 3: the content is uploaded under a key made of the message
\* identifier and the extension; a failure gives the event up.
Stage ==
  /\ mStep = "stage"
  /\ LET key == StageKey(mEvents[mIdx].message.id,
                         ExtensionOf(mBlob.contentType))
     IN  \E ok \in BOOLEAN :
           /\ mOps' = Append(mOps, Op("put", key, ok))
           /\ IF ok
                THEN /\ mStaged' = key
                     /\ mStep' = "process"
                     /\ UNCHANGED << mIdx, mBlob, mAnswer >>
                ELSE NextEvent
  /\ UNCHANGED << env, handlerVars, sanVars, sigVars, brVars, hs, mEvents >>

\* Faulty variant: a failure of the AI processor goes straight to the reply,
\* leaving the staged object behind.
Process_SkipCleanupOnFailure ==
  /\ mStep = "process"
  /\ \E result \in { "answer", "empty", "failed" } :
       /\ mAnswer' = IF result = "answer"
                       THEN <<"answer about", mStaged>> ELSE NoAnswer
       /\ mOps' = Append(mOps,
                    [Op("process",
                        [url |-> mStaged,
                         fileType |-> FileTypeOf(ExtensionOf(mBlob.contentType)),
                         responseMode |-> "blocking"],
                        result # "failed")
                     EXCEPT !.out = mAnswer'])
       /\ mStep' = IF result = "failed" THEN "reply" ELSE "cleanup"
  /\ UNCHANGED << env, handlerVars, sanVars, sigVars, brVars, hs, mEvents,
                  mIdx, mBlob, mStaged >>

\* Step 4: the AI processor is asked about the staged object; it answers,
\* answers without an answer, or fails.
Process ==
  /\ mStep = "process"
  /\ \E result \in { "answer", "empty", "failed" } :
       /\ mAnswer' = IF result = "answer"
                       THEN <<"answer about", mStaged>> ELSE NoAnswer
       /\ mOps' = Append(mOps,
                    [Op("process",
                        [url |-> mStaged,
                         fileType |-> FileTypeOf(ExtensionOf(mBlob.contentType)),
                         responseMode |-> "blocking"],
                        result # "failed")
                     EXCEPT !.out = mAnswer'])
  /\ mStep' = "cleanup"
  /\ UNCHANGED << env, handlerVars, sanVars, sigVars, brVars, hs, mEvents,
                  mIdx, mBlob, mStaged >>

\* Step 5: the staged object is deleted, best effort.
Cleanup ==
  /\ mStep = "cleanup"
  /\ \E ok \in BOOLEAN : mOps' = Append(mOps, Op("delete", mStaged, ok))
  /\ mStep' = "reply"
  /\ UNCHANGED << env, handlerVars, sanVars, sigVars, brVars, hs, mEvents,
                  mIdx, mBlob, mStaged, mAnswer >>

\* Faulty variant: the reply carries the answer as it is, empty when the AI
\* processor gave none.
Reply_AnswerOnly ==
  /\ mStep = "reply"
  /\ \E ok \in BOOLEAN :
       mOps' = Append(mOps,
                 Op("reply",
                    [replyToken |-> mEvents[mIdx].replyToken,
                     text |-> mAnswer],
                    ok))
  /\ NextEvent
  /\ UNCHANGED << env, handlerVars, sanVars, sigVars, brVars, hs, mEvents >>

\* Step 6: the reply is sent with the reply token of the event.
Reply ==
  /\ mStep = "reply"
  /\ \E ok \in BOOLEAN :
       mOps' = Append(mOps,
                 Op("reply",
                    [replyToken |-> mEvents[mIdx].replyToken,
                     text |-> IF mAnswer # NoAnswer
                                THEN mAnswer ELSE FallbackText],
                    ok))
  /\ NextEvent
  /\ UNCHANGED << env, handlerVars, sanVars, sigVars, brVars, hs, mEvents >>

NextMedia ==
  \/ Dispatch
  \/ DispatchDone
  \/ Fetch
  \/ Stage
  \/ Process
  \/ Cleanup
  \/ Reply

SpecMedia == InitMedia /\ [][NextMedia]_vars

(***************************************************************************)
(* Several requests at once.  Each invocation of app.post("/") has its own *)
(* locals and closures (part_001:116-281); the invocations run interleaved *)
(* at their awaits and share process.env only, which none writes.  A       *)
(* forward of an invocation takes the steps it takes alone: its fetch      *)
(* resolves or rejects or its timer fires, and the body of the answer      *)
(* arrives or fails in a later turn, other invocations running in between. *)
(***************************************************************************)
\* The bodies and requests drawn: the same envelope with and without a
\* blank, and a text that is not JSON, each signed for each of them.
ConcBodies ==
  { [json |-> Envelope(<<TextEvent(T_hello)>>), pad |-> 0],
    [json |-> Envelope(<<TextEvent(T_hello)>>), pad |-> 1],
    [json |-> [t |-> "malformed"], pad |-> 0] }

ConcRequests ==
  { [body |-> b,
     hdrs |-> << Field(W_XLineRequestId,
                       HdrsOf({W_XLineRequestId})[W_XLineRequestId]),
                 Field(h_xlinesignature,
                       HmacSha256Base64("secretA", signed)) >>] :
      b \in ConcBodies, signed \in ConcBodies }

InitConc ==
  /\ env \in { e \in Envs : e["LINE_CHANNEL_SECRET"] = "secretA" }
  /\ HandlerIdle
  /\ SanIdle
  /\ SigIdle
  /\ MediaIdle
  /\ BracketIdle
  /\ ConcIdle

\* part_001:116-122
ConcReceive(s) ==
  /\ hs[s].pc = "idle"
  /\ \E r \in ConcRequests :
       hs' = [hs EXCEPT ![s] =
                IF ~validateEnvVars
                  THEN [@ EXCEPT !.req = r,
                                 !.response =
                                   [status |-> 500,
                                    message |-> "Server configuration error"],
                                 !.pc = "responded"]
                  ELSE [@ EXCEPT !.req = r, !.pc = "reading"]]
  /\ UNCHANGED << env, handlerVars, sanVars, sigVars, mediaVars, brVars >>

\* part_001:122-275 on the locals h of an invocation, raw being the text
\* read from its request.
HandledBody(h, raw) ==
  IF JSONParseThrows(raw)
    THEN [h EXCEPT !.rawBody = raw, !.response = InternalError,
                   !.pc = "responded"]
    ELSE
      LET sig  == OrEmpty(reqHeader(h.req.hdrs), h_xlinesignature)
          hdr  == reqHeader(h.req.hdrs)
          read == [h EXCEPT !.rawBody = raw, !.webhookBody = JSONParse(raw),
                            !.originalSignature = sig, !.headers = hdr]
      IN  IF EventsLengthThrows(JSONParse(raw))
            THEN [read EXCEPT !.response = InternalError, !.pc = "responded"]
          ELSE IF ~validateSignature(sig, raw)
            THEN [read EXCEPT !.response = [status |-> 401,
                                            message |-> "Invalid signature"],
                              !.pc = "responded"]
          ELSE [read EXCEPT !.calls = << LStepCall(raw, sig, hdr),
                                         DifyCall(raw, sig, hdr) >>,
                            !.fwd = [d \in Dests |->
                                       [IdleFwd EXCEPT !.st = "fetching",
                                                       !.timer = TRUE]],
                            !.pc = "forwarding"]

\* Faulty variant: the body is kept in a variable of the module, which an
\* invocation that is under way at the same time has overwritten.
ConcHandleBody_SharedBody(s) ==
  /\ hs[s].pc = "reading"
  /\ LET underWay == { t \in Slots \ {s} : hs[t].pc # "idle" }
         raw == IF underWay = {} THEN hs[s].req.body
                ELSE hs[CHOOSE t \in underWay : TRUE].req.body
     IN  hs' = [hs EXCEPT ![s] = HandledBody(hs[s], raw)]
  /\ UNCHANGED << env, handlerVars, sanVars, sigVars, mediaVars, brVars >>

ConcHandleBody(s) ==
  /\ hs[s].pc = "reading"
  /\ hs' = [hs EXCEPT ![s] = HandledBody(hs[s], hs[s].req.body)]
  /\ UNCHANGED << env, handlerVars, sanVars, sigVars, mediaVars, brVars >>

\* part_001:197-202, 229-240: fetch resolves, finally clears the timer.
ConcFetchResolves(s, d) ==
  /\ hs[s].pc = "forwarding"
  /\ hs[s].fwd[d].st = "fetching"
  /\ \E status \in DownstreamStatuses :
       hs' = [hs EXCEPT ![s].fwd[d] =
                [st |-> "reading", timer |-> FALSE,
                 status |-> status, outcome |-> "none"]]
  /\ UNCHANGED << env, handlerVars, sanVars, sigVars, mediaVars, brVars >>

\* part_001:197-202, 214-221: fetch rejects with a network error.
ConcFetchRejects(s, d) ==
  /\ hs[s].pc = "forwarding"
  /\ hs[s].fwd[d].st = "fetching"
  /\ hs' = [hs EXCEPT ![s].fwd[d] =
              [st |-> "settled", timer |-> FALSE,
               status |-> 0, outcome |-> "neterror"]]
  /\ UNCHANGED << env, handlerVars, sanVars, sigVars, mediaVars, brVars >>

\* part_001:190-194: the timer of this forward fires and aborts its fetch.
ConcTimeoutFires(s, d) ==
  /\ hs[s].pc = "forwarding"
  /\ hs[s].fwd[d].st = "fetching"
  /\ hs[s].fwd[d].timer
  /\ hs' = [hs EXCEPT ![s].fwd[d] =
              [st |-> "settled", timer |-> FALSE,
               status |-> 0, outcome |-> "timeout"]]
  /\ UNCHANGED << env, handlerVars, sanVars, sigVars, mediaVars, brVars >>

\* part_001:204-213, 248-257: res.text() resolves.
ConcTextResolves(s, d) ==
  /\ hs[s].pc = "forwarding"
  /\ hs[s].fwd[d].st = "reading"
  /\ hs' = [hs EXCEPT ![s].fwd[d].st = "settled",
                      ![s].fwd[d].outcome =
                        IF ResOk(hs[s].fwd[d].status) THEN "ok" ELSE "non2xx"]
  /\ UNCHANGED << env, handlerVars, sanVars, sigVars, mediaVars, brVars >>

\* part_001:204-221: res.text() rejects.
ConcTextRejects(s, d) ==
  /\ hs[s].pc = "forwarding"
  /\ hs[s].fwd[d].st = "reading"
  /\ hs' = [hs EXCEPT ![s].fwd[d].st = "settled",
                      ![s].fwd[d].outcome = "readerror"]
  /\ UNCHANGED << env, handlerVars, sanVars, sigVars, mediaVars, brVars >>

\* part_001:271-281
ConcRespond(s) ==
  /\ hs[s].pc = "forwarding"
  /\ \A d \in Dests : hs[s].fwd[d].st = "settled"
  /\ hs' = [hs EXCEPT ![s].response = [status |-> 200, message |-> ""],
                      ![s].pc = "responded"]
  /\ UNCHANGED << env, handlerVars, sanVars, sigVars, mediaVars, brVars >>

\* The invocation is over; its locals are gone.
ConcNextRequest(s) ==
  /\ hs[s].pc = "responded"
  /\ hs' = [hs EXCEPT ![s] = IdleHandler]
  /\ UNCHANGED << env, handlerVars, sanVars, sigVars, mediaVars, brVars >>

NextConc ==
  \/ \E s \in Slots : ConcReceive(s)
  \/ \E s \in Slots : ConcHandleBody(s)
  \/ \E s \in Slots, d \in Dests : ConcFetchResolves(s, d)
  \/ \E s \in Slots, d \in Dests : ConcFetchRejects(s, d)
  \/ \E s \in Slots, d \in Dests : ConcTimeoutFires(s, d)
  \/ \E s \in Slots, d \in Dests : ConcTextResolves(s, d)
  \/ \E s \in Slots, d \in Dests : ConcTextRejects(s, d)
  \/ \E s \in Slots : ConcRespond(s)
  \/ \E s \in Slots : ConcNextRequest(s)

SpecConc == InitConc /\ [][NextConc]_vars

(***************************************************************************)
(* Vocabulary of the properties, from the request as it was sent.          *)
(***************************************************************************)
\* The names of the header fields of a request, as sent.
WireNames(r) == { r.hdrs[i].name : i \in DOMAIN r.hdrs }

\* The value of the request's signature header, whatever the case of its
\* name: the empty string when the request has none, and the field values
\* in the order sent, as one joined value, when it has several.
WireSignature(r) ==
  LET at == { i \in DOMAIN r.hdrs :
                toLowerCase(r.hdrs[i].name) = h_xlinesignature }
  IN  IF at = {} THEN EmptyStr
      ELSE IF Cardinality(at) = 1
        THEN r.hdrs[CHOOSE i \in at : TRUE].value
      ELSE <<"joined", ValuesNamed(r.hdrs, h_xlinesignature)>>

\* The signature of the request is the base64 HMAC-SHA256 of its raw body
\* under the channel secret.
SignatureMatches(r) ==
  WireSignature(r) = HmacSha256Base64(env["LINE_CHANNEL_SECRET"], r.body)

\* All five configuration values of the README are set.
ConfigurationComplete == \A key \in EnvKeys : env[key] # ""

\* The outbound POSTs issued to destination d.
CallsTo(d) == { i \in DOMAIN calls : calls[i].dest = d }

\* The names of a header record that spell the signature header.
SignatureKeys(h) == { k \in DOMAIN h : toLowerCase(k) = h_xlinesignature }

\* The text message events of a parsed body.
TextsOf(value) ==
  IF "events" \notin DOMAIN value THEN {}
  ELSE { value.events[i].message.text :
           i \in { j \in DOMAIN value.events :
                     /\ value.events[j].type = "message"
                     /\ value.events[j].message.type = "text" } }

(***************************************************************************)
(* C1.  Authentication gate: an outbound POST to destination 1 or 2 exists *)
(* only for a request whose signature header equals the base64 HMAC-SHA256 *)
(* of its raw body under the channel secret; a request that fails          *)
(* verification causes no outbound call.                                   *)
(***************************************************************************)
C1_AuthenticationGate ==
  /\ (\E i \in DOMAIN calls : calls[i].dest \in Dests) => SignatureMatches(req)
  /\ (pc # "idle" /\ ~SignatureMatches(req)) => calls = << >>

\* A request signed for another body was answered 401 and nothing was sent.
C1_Witness ==
  /\ pc = "responded"
  /\ response.status = 401
  /\ WireSignature(req)[1] = "mac"
  /\ ~SignatureMatches(req)
  /\ calls = << >>

(***************************************************************************)
(* C2.  With complete configuration, every request whose signature does    *)
(* not match its raw body is answered 401, whatever the body is.           *)
(* The handler parses the body before it verifies: this fails.             *)
(***************************************************************************)
C2_BadSignatureIs401 ==
  (pc = "responded" /\ ConfigurationComplete /\ ~SignatureMatches(req))
    => response.status = 401

(***************************************************************************)
(* C3.  Once verification has passed the response is 200 whatever the two  *)
(* forwards do: no response before the join, and 200 after it.             *)
(***************************************************************************)
\* The request went through the configuration check, the parse and the
\* signature check.
VerificationPassed ==
  /\ pc \in { "forwarding", "responded" }
  /\ validateEnvVars
  /\ ~JSONParseThrows(req.body)
  /\ ~EventsLengthThrows(JSONParse(req.body))
  /\ SignatureMatches(req)

C3_VerifiedIsAlways200 ==
  VerificationPassed =>
    /\ pc = "forwarding" => response = NoResponse
    /\ pc = "responded"  => response.status = 200

\* Destination 1 timed out, destination 2 answered 200, the caller got 200.
C3_Witness ==
  /\ pc = "responded"
  /\ fwd[1].outcome = "timeout"
  /\ fwd[2].outcome = "ok"
  /\ response.status = 200

(***************************************************************************)
(* C4.  The body of every POST sent to destination 1 and to destination 2  *)
(* is the raw body of the request, as received.                            *)
(***************************************************************************)
C4_ForwardsCarryRawBody ==
  \A i \in DOMAIN calls : calls[i].body = req.body

\* Both destinations were sent a body that its re-serialization would
\* have changed.
C4_Witness ==
  /\ CallsTo(1) # {} /\ CallsTo(2) # {}
  /\ req.body # JSONStringify(JSONParse(req.body))
  /\ \A i \in DOMAIN calls : calls[i].body = req.body

(***************************************************************************)
(* C5.  Bracket filter routing: an envelope with a text message enclosed   *)
(* in brackets is not forwarded to destination 2; an envelope whose text   *)
(* messages are not enclosed is forwarded verbatim to both.                *)
(* The handler forwards every verified envelope to both: this fails.       *)
(***************************************************************************)
C5_BracketRouting ==
  (pc = "responded" /\ response.status = 200) =>
    LET texts == TextsOf(JSONParse(req.body))
    IN  /\ (\E t \in texts : isExclusiveToFirstDownstream(trim(t)))
              => (CallsTo(2) = {} /\ CallsTo(1) # {})
        /\ (texts # {}
              /\ \A t \in texts : ~isExclusiveToFirstDownstream(trim(t)))
              => /\ CallsTo(1) # {} /\ CallsTo(2) # {}
                 /\ \A i \in DOMAIN calls : calls[i].body = req.body

(***************************************************************************)
(* C6.  With any one of the five configuration values missing, a POST is   *)
(* answered 500 and nothing is verified or forwarded.                      *)
(* validateEnvVars does not look at DIFY_API_KEY: this fails.              *)
(***************************************************************************)
C6_MissingConfigurationIs500 ==
  (pc = "responded" /\ ~ConfigurationComplete)
    => /\ response.status = 500
       /\ calls = << >>

(***************************************************************************)
(* C7.  Asymmetric signature inclusion: the headers sent to destination 1  *)
(* carry the signature header with the verified signature, those sent to   *)
(* destination 2 carry no header whose lower-cased name is the signature   *)
(* header name, whatever the case of the inbound signature header.         *)
(***************************************************************************)
C7_AsymmetricSignature ==
  \A i \in DOMAIN calls :
    /\ calls[i].dest = 1 =>
         /\ SignatureKeys(calls[i].headers) # {}
         /\ \A k \in SignatureKeys(calls[i].headers) :
              /\ calls[i].headers[k] = WireSignature(req)
              /\ calls[i].headers[k] =
                   HmacSha256Base64(env["LINE_CHANNEL_SECRET"], req.body)
    /\ calls[i].dest = 2 => SignatureKeys(calls[i].headers) = {}

\* A request whose signature header was spelt in upper case, with other
\* x-line- headers, was forwarded to both.
C7_Witness ==
  /\ W_XLINESIGNATURE \in WireNames(req)
  /\ W_XLineRequestId \in WireNames(req)
  /\ CallsTo(1) # {} /\ CallsTo(2) # {}
  /\ \A i \in CallsTo(1) : calls[i].headers[H_XLineSignature] = WireSignature(req)
  /\ \A i \in CallsTo(2) :
       toLowerCase(W_XLineRequestId) \in DOMAIN calls[i].headers

(***************************************************************************)
(* C8.  The header sanitizer never emits a header whose lower-cased name   *)
(* is blacklisted, for any inbound header record, names in any case.       *)
(***************************************************************************)
C8_NoBlacklistedHeader ==
  sanOut.done =>
    \A k \in DOMAIN sanOut.forwardHeaders :
      toLowerCase(k) \notin blacklistedHeaders

\* The sanitizer ran on a record with a mixed-case blacklisted name and an
\* x-line- header, and kept only the latter.
C8_Witness ==
  /\ sanOut.done
  /\ W_hOsT \in DOMAIN sanIn.headers
  /\ W_XLineRequestId \in DOMAIN sanIn.headers
  /\ W_XLineRequestId \in DOMAIN sanOut.forwardHeaders
  /\ W_hOsT \notin DOMAIN sanOut.forwardHeaders

(***************************************************************************)
(* C9.  Signature verification is sound and complete: a signature made for *)
(* a body verifies against that body, and against no other body, under     *)
(* the same secret.                                                        *)
(***************************************************************************)
C9_VerifySoundAndComplete ==
  sigOut.done =>
    /\ sigOut.same
    /\ sigIn.b1 # sigIn.b2 => ~sigOut.cross

\* The signature of a body was refused for the same JSON with other blanks.
C9_Witness ==
  /\ sigOut.done
  /\ sigOut.same
  /\ sigIn.b1 # sigIn.b2
  /\ JSONParse(sigIn.b1) = JSONParse(sigIn.b2)
  /\ ~sigOut.cross

(***************************************************************************)
(* C10.  Media pipeline abort on staging failure: for a media event whose  *)
(* upload failed, no request is made to the AI processor and no reply is   *)
(* sent; the dispatcher goes on to the next event.                         *)
(***************************************************************************)
\* The events whose upload failed.
UploadFailed == { mOps[i].ev : i \in { j \in DOMAIN mOps :
                                         mOps[j].op = "put" /\ ~mOps[j].ok } }

C10_NoProcessingAfterFailedUpload ==
  \A e \in UploadFailed :
    /\ ~\E i \in DOMAIN mOps :
          mOps[i].ev = e /\ mOps[i].op \in { "process", "reply" }
    /\ mIdx > e

\* The upload for the first event failed and the second event, a media
\* message too, went through its pipeline to the reply.
C10_Witness ==
  /\ 1 \in UploadFailed
  /\ mStep = "done"
  /\ \E i \in DOMAIN mOps : mOps[i].ev = 2 /\ mOps[i].op = "reply"
  /\ ~\E i \in DOMAIN mOps : mOps[i].ev = 1 /\ mOps[i].op \in { "process", "reply" }

(***************************************************************************)
(* C11.  Cleanup exactly once per staged object: for every media event     *)
(* whose upload succeeded the delete operation is invoked once, on the key *)
(* that was staged, whether the AI processor succeeded or failed; for an   *)
(* event with no staged object it is never invoked.                        *)
(***************************************************************************)
\* The operations of kind op recorded for event e.
OpsOf(e, op) == { i \in DOMAIN mOps : mOps[i].ev = e /\ mOps[i].op = op }

\* The events whose upload succeeded.
StagedEvents == { e \in DOMAIN mEvents : \E i \in OpsOf(e, "put") : mOps[i].ok }

C11_CleanupOncePerStagedObject ==
  \A e \in DOMAIN mEvents :
    IF e \in StagedEvents
      THEN /\ Cardinality(OpsOf(e, "delete")) <= 1
           /\ mIdx > e => Cardinality(OpsOf(e, "delete")) = 1
           /\ \A i \in OpsOf(e, "delete") :
                \E j \in OpsOf(e, "put") : j < i /\ mOps[i].arg = mOps[j].arg
      ELSE OpsOf(e, "delete") = {}

\* Two media events went through: the AI processor failed for the first and
\* answered for the second, and each staged object was deleted once.
C11_Witness ==
  /\ mStep = "done"
  /\ StagedEvents = {1, 2}
  /\ \E i \in OpsOf(1, "process") : ~mOps[i].ok
  /\ \E i \in OpsOf(2, "process") : mOps[i].ok
  /\ Cardinality(OpsOf(1, "delete")) = 1
  /\ Cardinality(OpsOf(2, "delete")) = 1

(***************************************************************************)
(* C12.  Per-event isolation: whatever fails while an event is handled (a  *)
(* step of the media pipeline, the forward of a text, a thrown error),     *)
(* every other event of the envelope is still handled, and the response to *)
(* the inbound request is the same 200.                                    *)
(***************************************************************************)
\* The event calls for an outbound operation: a text outside brackets, or a
\* media message.
NeedsWork(e) ==
  /\ mEvents[e].type = "message"
  /\ \/ /\ mEvents[e].message.type = "text"
        /\ ~isExclusiveToFirstDownstream(trim(mEvents[e].message.text))
     \/ mEvents[e].message.type \in MediaKinds

\* The dispatcher got to event e: an operation or a caught error is recorded.
Attempted(e) == \E i \in DOMAIN mOps : mOps[i].ev = e

\* The events for which something failed.
FailedEvents == { mOps[i].ev : i \in { j \in DOMAIN mOps : ~mOps[j].ok } }

C12_PerEventIsolation ==
  /\ \A e \in DOMAIN mEvents : (e < mIdx /\ NeedsWork(e)) => Attempted(e)
  /\ mStep = "done" =>
       /\ \A e \in DOMAIN mEvents : NeedsWork(e) => Attempted(e)
       /\ response = [status |-> 200, message |-> ""]
  /\ mStep # "done" => response = NoResponse

\* The fetch for the first event failed; the second event, a media message
\* too, was fetched, staged, processed and replied to, and the response is
\* 200.
C12_Witness ==
  /\ mStep = "done"
  /\ 1 \in FailedEvents
  /\ \E i \in OpsOf(1, "fetchContent") : ~mOps[i].ok
  /\ 2 \notin FailedEvents
  /\ \E i \in OpsOf(2, "reply") : mOps[i].ok
  /\ response.status = 200

(***************************************************************************)
(* C13.  The bracket predicate is true exactly for the texts of length at  *)
(* least 2 whose first character is the opening bracket and whose last     *)
(* character is the closing bracket: it is true for the two texts of the   *)
(* claim in brackets and false for its five other texts.                   *)
(***************************************************************************)
C13_FirstAndLastCharacter ==
  brOut.done =>
    /\ brOut.result <=> /\ Len(brIn) >= 2
                        /\ brIn[1] = "U+3010"
                        /\ brIn[Len(brIn)] = "U+3011"
    /\ brIn \in { <<"U+3010", "a", "U+3011">>, <<"U+3010", "U+3011">> }
         => brOut.result
    /\ brIn \in { <<"U+3010", "a">>, <<"a", "U+3011">>, <<"U+3011">>,
                  <<"U+3010">>, << >> }
         => ~brOut.result

\* The predicate was true of the two brackets with nothing between them.
C13_Witness ==
  /\ brOut.done
  /\ brIn = <<"U+3010", "U+3011">>
  /\ brOut.result

(***************************************************************************)
(* C14.  All-settle join: for a verified request the response is produced  *)
(* only after both forwards have settled (completed, failed or been        *)
(* aborted); no forward is in flight when the response exists.             *)
(***************************************************************************)
\* The forward to destination d is over, with an outcome.
Settled(d) == fwd[d].st = "settled" /\ fwd[d].outcome # "none"

C14_AllSettleJoin ==
  (VerificationPassed /\ response # NoResponse) => \A d \in Dests : Settled(d)

\* The response was given after a network error of destination 1 and a
\* failed read of the answer of destination 2.
C14_Witness ==
  /\ VerificationPassed
  /\ pc = "responded"
  /\ response.status = 200
  /\ fwd[1].outcome = "neterror"
  /\ fwd[2].outcome = "readerror"

(***************************************************************************)
(* C15.  Independent forwards: both POSTs are issued for every verified    *)
(* request; each forward has a timer of its own, armed while its fetch is  *)
(* pending whatever became of the other forward; and a step of one forward *)
(* (success, failure, timeout abort) changes nothing of the other forward  *)
(* and of the POSTs issued.                                                *)
(***************************************************************************)
BothForwardsIssued ==
  VerificationPassed =>
    /\ \A d \in Dests : CallsTo(d) # {}
    /\ \A d \in Dests : fwd[d].st = "fetching" => fwd[d].timer

OneForwardPerStep ==
  (pc = "forwarding" /\ pc' = "forwarding") =>
    \A d \in Dests :
      fwd'[d] # fwd[d] =>
        /\ \A o \in Dests \ {d} : fwd'[o] = fwd[o]
        /\ calls' = calls

C15_IndependentForwards == []BothForwardsIssued /\ [][OneForwardPerStep]_vars

\* The forward to destination 1 was aborted by its timer; the fetch to
\* destination 2 is still pending, its own timer armed.
C15_Witness ==
  /\ pc = "forwarding"
  /\ fwd[1].outcome = "timeout"
  /\ fwd[2].st = "fetching"
  /\ fwd[2].timer
  /\ CallsTo(2) # {}

(***************************************************************************)
(* C16.  Bounded handling: for a verified request, a forward that has not  *)
(* settled, whether it waits for the response headers or reads the         *)
(* response body, can be aborted by its timeout, so that a downstream that *)
(* stalls cannot keep the forward from settling and the handler from       *)
(* answering.                                                              *)
(* The timer is cleared when fetch resolves, before the body is read: this *)
(* fails while the body is read.                                           *)
(***************************************************************************)
C16_UnsettledForwardCanTimeOut ==
  pc = "forwarding" =>
    \A d \in Dests :
      fwd[d].st \in { "fetching", "reading" } => ENABLED TimeoutFires(d)

(***************************************************************************)
(* C17.  No retry: for a request, each destination is sent at most one     *)
(* POST, whatever the outcome of that POST.                                *)
(***************************************************************************)
C17_AtMostOnePostPerDestination ==
  \A d \in Dests : Cardinality(CallsTo(d)) <= 1

\* Destination 1 answered 500 and destination 2 timed out: one POST each,
\* and the request is answered.
C17_Witness ==
  /\ pc = "responded"
  /\ fwd[1].outcome = "non2xx"
  /\ fwd[2].outcome = "timeout"
  /\ \A d \in Dests : Cardinality(CallsTo(d)) = 1

(***************************************************************************)
(* C18.  Media pipeline order and reply: for a media event whose fetch and *)
(* upload succeeded, the AI processor is asked, then the staged object is  *)
(* deleted, then the reply is sent; there is one reply, with the reply     *)
(* token of the event, carrying the answer of the processor when it gave   *)
(* one and the fallback text when it failed or gave none.                  *)
(***************************************************************************)
\* The text the reply to an event must carry, given its process operation.
ReplyTextFor(processOp) ==
  IF processOp.ok /\ processOp.out # NoAnswer
    THEN processOp.out ELSE FallbackText

C18_ProcessCleanupReply ==
  \A e \in StagedEvents :
    /\ \A c \in OpsOf(e, "delete") : \E p \in OpsOf(e, "process") : p < c
    /\ \A r \in OpsOf(e, "reply") :
         /\ \E c \in OpsOf(e, "delete") : c < r
         /\ mOps[r].arg.replyToken = mEvents[e].replyToken
         /\ \A p \in OpsOf(e, "process") :
              mOps[r].arg.text = ReplyTextFor(mOps[p])
    /\ Cardinality(OpsOf(e, "process")) <= 1
    /\ Cardinality(OpsOf(e, "reply")) <= 1
    /\ mIdx > e => /\ Cardinality(OpsOf(e, "process")) = 1
                   /\ Cardinality(OpsOf(e, "reply")) = 1

\* Two media events went through: the first got the answer of the AI
\* processor, the second, for which the processor gave no answer, the
\* fallback text.
C18_Witness ==
  /\ mStep = "done"
  /\ StagedEvents = {1, 2}
  /\ \E p \in OpsOf(1, "process"), r \in OpsOf(1, "reply") :
       /\ mOps[p].out # NoAnswer
       /\ mOps[r].arg.text = mOps[p].out
  /\ \E p \in OpsOf(2, "process"), r \in OpsOf(2, "reply") :
       /\ mOps[p].ok
       /\ mOps[p].out = NoAnswer
       /\ mOps[r].arg.text = FallbackText

(***************************************************************************)
(* C19.  Header pass-through rule: every header of the sanitizer's output  *)
(* other than the four defaults and the signature header is an inbound     *)
(* header, its value unchanged, whose lower-cased name starts with         *)
(* x-line-, is not the signature header name and contains none of          *)
(* forwarded, host, proxy; and every such inbound header is in the output. *)
(***************************************************************************)
\* The name is one the rule lets through.
PassesThrough(name) ==
  LET lower == toLowerCase(name)
  IN  /\ Len(lower) >= Len(h_xline)
      /\ SubSeq(lower, 1, Len(h_xline)) = h_xline
      /\ lower # h_xlinesignature
      /\ \A word \in { h_forwarded, h_host, h_proxy } : ~includes(lower, word)

C19_PassThroughRule ==
  sanOut.done =>
    LET out   == sanOut.forwardHeaders
        fixed == (DOMAIN DefaultHeaders) \cup { H_XLineSignature }
    IN  /\ \A k \in (DOMAIN out) \ fixed :
             /\ k \in DOMAIN sanIn.headers
             /\ out[k] = sanIn.headers[k]
             /\ PassesThrough(k)
        /\ \A k \in DOMAIN sanIn.headers :
             PassesThrough(k) => /\ k \in DOMAIN out
                                 /\ out[k] = sanIn.headers[k]

\* Of an x-line- header and a header with x-line- inside its name, the
\* sanitizer kept the first, with its value, and dropped the second.
C19_Witness ==
  /\ sanOut.done
  /\ DOMAIN sanIn.headers = { W_XLineRequestId, W_MyXLineId }
  /\ W_XLineRequestId \in DOMAIN sanOut.forwardHeaders
  /\ sanOut.forwardHeaders[W_XLineRequestId] = sanIn.headers[W_XLineRequestId]
  /\ W_MyXLineId \notin DOMAIN sanOut.forwardHeaders

(***************************************************************************)
(* C20.  Request isolation: with several requests handled at once, their   *)
(* steps interleaved, every POST issued for a request carries the raw body *)
(* of that request, and its signature where one is sent; the response of a *)
(* request is the one its own configuration, body and signature checks     *)
(* give; and a step of one request changes nothing of another.             *)
(***************************************************************************)
\* The status the checks of the handler give for request r taken alone.
OwnStatus(r) ==
  IF ~validateEnvVars THEN 500
  ELSE IF JSONParseThrows(r.body) THEN 500
  ELSE IF EventsLengthThrows(JSONParse(r.body)) THEN 500
  ELSE IF ~SignatureMatches(r) THEN 401
  ELSE 200

OwnRequestOnly ==
  \A s \in Slots :
    LET h == hs[s]
    IN  /\ \A i \in DOMAIN h.calls :
             /\ h.calls[i].body = h.req.body
             /\ \A k \in SignatureKeys(h.calls[i].headers) :
                  h.calls[i].headers[k] = WireSignature(h.req)
        /\ h.calls # << >> =>
             /\ OwnStatus(h.req) = 200
             /\ { h.calls[i].dest : i \in DOMAIN h.calls } = Dests
        /\ h.pc = "forwarding" => h.calls # << >>
        /\ h.pc = "responded" => h.response.status = OwnStatus(h.req)

OneRequestPerStep ==
  /\ env' = env
  /\ \A s \in Slots :
       hs'[s] # hs[s] => \A t \in Slots \ {s} : hs'[t] = hs[t]

C20_RequestIsolation == []OwnRequestOnly /\ [][OneRequestPerStep]_vars

\* While one request had the answer of its first forward, status 500, and
\* not yet its body, and its second forward was in flight, another request,
\* which carried the signature of the body of the first, was answered 401.
C20_Witness ==
  \E s, t \in Slots :
    /\ hs[s].pc = "forwarding"
    /\ hs[s].fwd[1].st = "reading"
    /\ hs[s].fwd[1].status = 500
    /\ hs[s].fwd[2].st = "fetching"
    /\ hs[t].pc = "responded"
    /\ hs[t].response.status = 401
    /\ hs[t].req.body # hs[s].req.body
    /\ WireSignature(hs[t].req) = WireSignature(hs[s].req)

(***************************************************************************)
(* C21.  Order of the gates: the configuration check comes first.  A       *)
(* request that arrives while a required configuration value is missing is *)
(* answered 500, its body not read and no signature computed, whatever its *)
(* signature; the body is read and the signature checked only with         *)
(* complete configuration.                                                 *)
(* validateEnvVars does not look at DIFY_API_KEY (C6): this fails.         *)
(***************************************************************************)
C21_ConfigurationGateFirst ==
  /\ (pc = "responded" /\ ~ConfigurationComplete) =>
       /\ response = [status |-> 500, message |-> "Server configuration error"]
       /\ rawBody = NoText
       /\ webhookBody = NoValue
       /\ calls = << >>
  /\ pc \in { "reading", "forwarding" } => ConfigurationComplete
  /\ (pc = "responded" /\ response.status \in { 200, 401 })
       => ConfigurationComplete

(***************************************************************************)
(* C22.  A request without signature header is handled with the empty     *)
(* signature and, with complete configuration, is answered 401 with no     *)
(* outbound call, whatever its body and the secret.                        *)
(* The handler parses the body before it verifies (C2): this fails.        *)
(***************************************************************************)
C22_NoSignatureIs401 ==
  (pc = "responded" /\ ConfigurationComplete
     /\ \A n \in WireNames(req) : toLowerCase(n) # h_xlinesignature)
    => /\ originalSignature = EmptyStr
       /\ response.status = 401
       /\ calls = << >>

=============================================================================
